---- MODULE Spec2Model ----
(***************************************************************************)
(* Model of scripts/tts/talk.py: the interactive text-to-speech loop that  *)
(* reads lines, asks the synthesis service for audio (batch or streaming)  *)
(* and forwards the audio to the sound device and to an optional WAV file. *)
(*                                                                         *)
(* The program is single-threaded; pc is the position of main().  An       *)
(* exception is modelled by exc holding its name while control runs the    *)
(* release path (finally clause, then the with-statement's exit).          *)
(* KeyboardInterrupt may be delivered between any two statements of the    *)
(* try body; the release steps themselves are taken as atomic.             *)
(***************************************************************************)
EXTENDS Integers, Sequences, FiniteSets, TLC

VARIABLES
    argv,          \* command line, fixed for the run
    pc,            \* position of main()
    exc,           \* exception propagating (or raised out of main once exited)
    cause,         \* the first exception raised in the run
    listed,        \* list_output_devices() was called
    auth,          \* riva_api.Auth created (connection to the server)
    service,       \* SpeechSynthesisService created
    sound_stream,  \* the SoundCallBack device: state, parameters, chunks written
    out_f,         \* the local out_f: "unbound", "None" or "wave"
    wav,           \* the Wave_write object and the file behind it
    responses,     \* chunks the streaming response has not produced yet
    resp,          \* audio of the current response
    first,         \* the local first
    prompts,       \* number of input() calls
    lines,         \* number of lines read
    requests,      \* number of synthesis requests sent
    reqlog,        \* the synthesis requests sent: operation and sample rate
    taken,         \* audio buffers received from the service, in order
    content,       \* audio content of every request sent, per request
    printed        \* metric lines printed since the last line was read

vars == <<argv, pc, exc, cause, listed, auth, service, sound_stream, out_f, wav,
          responses, resp, first, prompts, lines, requests, reqlog, taken,
          content, printed>>

----------------------------------------------------------------------------
(* Bounds *)
MaxReq == 2        \* lines read per session
MaxChunks == 2     \* chunks per streaming response

(* Program constants *)
nchannels == 1
sampwidth == 2

SeqsUpTo(S, n) == UNION {[1..k -> S] : k \in 0..n}

(* Audio buffers the service returns: empty, an odd and an even number of *)
(* bytes (a frame is sampwidth * nchannels = 2 bytes)                     *)
Audio == {<<>>, <<0>>, <<1, 0>>}

(* Chunks of a streaming response carry audio *)
Chunks == Audio \ {<<>>}

StreamResponses == SeqsUpTo(Chunks, MaxChunks)

RECURSIVE Flatten(_)
Flatten(ss) == IF ss = <<>> THEN <<>> ELSE Head(ss) \o Flatten(Tail(ss))

----------------------------------------------------------------------------
(* parse_args: --sample-rate-hz has type=int *)
RateArgs == {"abc", "-1", "0", "16000", "44100"}

IsInt(s) == s \in {"-1", "0", "16000", "44100"}

ParseInt(s) ==
    CASE s = "-1" -> 0 - 1
      [] s = "0" -> 0
      [] s = "16000" -> 16000
      [] s = "44100" -> 44100

Argv == [list_devices : BOOLEAN, output : BOOLEAN, stream : BOOLEAN,
         sample_rate_hz : RateArgs]

args == [list_devices |-> argv.list_devices,
         output |-> argv.output,
         stream |-> argv.stream,
         sample_rate_hz |-> ParseInt(argv.sample_rate_hz)]

----------------------------------------------------------------------------
(* The wave module's Wave_write object, as used by main *)
NoHeader == [present |-> FALSE, nchannels |-> 0, sampwidth |-> 0,
             framerate |-> 0, datalength |-> 0]

NoWave == [file |-> "none", nchannels |-> 0, sampwidth |-> 0, framerate |-> 0,
           headerwritten |-> FALSE, datalength |-> 0, datawritten |-> 0,
           header |-> NoHeader, data |-> <<>>, calls |-> <<>>, closes |-> 0]

WaveOpen == [NoWave EXCEPT !.file = "open"]

ParamsSet(w) == w.nchannels # 0 /\ w.sampwidth # 0 /\ w.framerate # 0

EnsureHeaderWritten(w, datasize) ==
    IF w.headerwritten THEN w
    ELSE LET framesize == w.sampwidth * w.nchannels
             len == (datasize \div framesize) * framesize
         IN [w EXCEPT !.headerwritten = TRUE,
                      !.datalength = len,
                      !.header = [present |-> TRUE, nchannels |-> w.nchannels,
                                  sampwidth |-> w.sampwidth,
                                  framerate |-> w.framerate,
                                  datalength |-> len]]

WriteFramesRaw(w, data) ==
    LET h == EnsureHeaderWritten(w, Len(data))
    IN [h EXCEPT !.data = @ \o data,
                 !.datawritten = @ + Len(data),
                 !.calls = Append(@, data)]

PatchHeader(w) ==
    IF w.datalength = w.datawritten THEN w
    ELSE [w EXCEPT !.datalength = w.datawritten,
                   !.header.datalength = w.datawritten]

WaveClose(w) ==
    IF w.file # "open" THEN [w EXCEPT !.closes = @ + 1]
    ELSE IF ParamsSet(w)
         THEN [PatchHeader(EnsureHeaderWritten(w, 0)) EXCEPT
                   !.file = "closed", !.closes = @ + 1]
         ELSE [w EXCEPT !.file = "closed", !.closes = @ + 1]

----------------------------------------------------------------------------
(* The SoundCallBack object *)
NoDevice == [state |-> "none", nchannels |-> 0, sampwidth |-> 0,
             framerate |-> 0, calls |-> <<>>]

SoundCallBackInit(nch, sw, rate) ==
    [state |-> "open", nchannels |-> nch, sampwidth |-> sw,
     framerate |-> rate, calls |-> <<>>]

SoundCallBackCall(dev, audio) == [dev EXCEPT !.calls = Append(@, audio)]

SoundCallBackExit(dev) == [dev EXCEPT !.state = "closed"]

----------------------------------------------------------------------------
(* Phases of the loop controller *)
Phase(p) ==
    CASE p = "input" -> "AwaitingInput"
      [] p = "synth" -> "Synthesizing"
      [] p \in {"next", "sound_stream", "writeframes"} -> "Playing"
      [] p \in {"finally", "with_exit", "exited"} -> "Stopped"
      [] OTHER -> "Starting"

Init ==
    /\ argv \in Argv
    /\ pc = "parse_args"
    /\ exc = "none"
    /\ cause = "none"
    /\ listed = FALSE
    /\ auth = FALSE
    /\ service = FALSE
    /\ sound_stream = NoDevice
    /\ out_f = "unbound"
    /\ wav = NoWave
    /\ responses = <<>>
    /\ resp = <<>>
    /\ first = FALSE
    /\ prompts = 0
    /\ lines = 0
    /\ requests = 0
    /\ reqlog = <<>>
    /\ taken = <<>>
    /\ content = <<>>
    /\ printed = 0

Goto(p) == pc' = p

(* lines 65-68, 79: the operation the streaming flag selects, and the *)
(* request it is called with                                          *)
Operation == IF args.stream THEN "synthesize_online" ELSE "synthesize"

Request(op) == [operation |-> op, sample_rate_hz |-> args.sample_rate_hz]

NoRaise == exc' = exc /\ cause' = cause

Raise(e, p) == exc' = e /\ cause' = e /\ Goto(p)

(* line 41, lines 14-37: argparse rejects a rate that is not an integer *)
ParseArgs ==
    /\ pc = "parse_args"
    /\ IF IsInt(argv.sample_rate_hz)
       THEN Goto("list_devices") /\ NoRaise
       ELSE Raise("InvalidArgument", "exited")
    /\ UNCHANGED <<argv, listed, auth, service, sound_stream, out_f, wav,
                   responses, resp, first, prompts, lines, requests, reqlog, taken,
                   content, printed>>

(* variant: the return after list_output_devices() is missing *)
ListDevices_noreturn ==
    /\ pc = "list_devices"
    /\ listed' = (listed \/ args.list_devices)
    /\ Goto("auth")
    /\ UNCHANGED <<argv, exc, cause, auth, service, sound_stream, out_f, wav,
                   responses, resp, first, prompts, lines, requests, reqlog, taken,
                   content, printed>>

(* lines 42-44 *)
ListDevices ==
    /\ pc = "list_devices"
    /\ IF args.list_devices
       THEN listed' = TRUE /\ Goto("exited")
       ELSE listed' = listed /\ Goto("auth")
    /\ UNCHANGED <<argv, exc, cause, auth, service, sound_stream, out_f, wav,
                   responses, resp, first, prompts, lines, requests, reqlog, taken,
                   content, printed>>

(* line 45 *)
Auth ==
    /\ pc = "auth"
    /\ auth' = TRUE
    /\ Goto("service")
    /\ UNCHANGED <<argv, exc, cause, listed, service, sound_stream, out_f, wav,
                   responses, resp, first, prompts, lines, requests, reqlog, taken,
                   content, printed>>

(* line 46 *)
Service ==
    /\ pc = "service"
    /\ service' = TRUE
    /\ Goto("open_device")
    /\ UNCHANGED <<argv, exc, cause, listed, auth, sound_stream, out_f, wav,
                   responses, resp, first, prompts, lines, requests, reqlog, taken,
                   content, printed>>

(* variant: a device that cannot be opened is ignored *)
OpenDevice_ignore ==
    /\ pc = "open_device"
    /\ \/ sound_stream' =
              SoundCallBackInit(nchannels, sampwidth, args.sample_rate_hz)
       \/ sound_stream' = sound_stream
    /\ Goto("try")
    /\ NoRaise
    /\ UNCHANGED <<argv, listed, auth, service, out_f, wav,
                   responses, resp, first, prompts, lines, requests, reqlog,
                   taken, content, printed>>

(* lines 47-51: the device is opened, or the constructor raises *)
OpenDevice ==
    /\ pc = "open_device"
    /\ \/ /\ sound_stream' =
               SoundCallBackInit(nchannels, sampwidth, args.sample_rate_hz)
          /\ Goto("try")
          /\ NoRaise
       \/ /\ Raise("DeviceUnavailable", "exited")
          /\ sound_stream' = sound_stream
    /\ UNCHANGED <<argv, listed, auth, service, out_f, wav,
                   responses, resp, first, prompts, lines, requests, reqlog, taken,
                   content, printed>>

(* lines 52-54, 58-59: wave.open creates the file, or raises *)
OpenWave ==
    /\ pc = "try"
    /\ IF args.output
       THEN \/ /\ out_f' = "wave"
               /\ wav' = WaveOpen
               /\ Goto("setparams")
               /\ NoRaise
            \/ /\ Raise("FileWriteError", "finally")
               /\ UNCHANGED <<out_f, wav>>
       ELSE /\ out_f' = "None"
            /\ wav' = wav
            /\ Goto("input")
            /\ NoRaise
    /\ UNCHANGED <<argv, listed, auth, service, sound_stream,
                   responses, resp, first, prompts, lines, requests, reqlog, taken,
                   content, printed>>

(* variant: the file's frame rate is the default rate, not the configured one *)
SetParams_default ==
    /\ pc = "setparams"
    /\ IF args.sample_rate_hz <= 0
       THEN /\ wav' = [wav EXCEPT !.nchannels = nchannels,
                                  !.sampwidth = sampwidth]
            /\ Raise("wave.Error", "finally")
       ELSE /\ wav' = [wav EXCEPT !.nchannels = nchannels,
                                  !.sampwidth = sampwidth,
                                  !.framerate = 44100]
            /\ Goto("input")
            /\ NoRaise
    /\ UNCHANGED <<argv, listed, auth, service, sound_stream, out_f,
                   responses, resp, first, prompts, lines, requests, reqlog,
                   taken, content, printed>>

(* lines 55-57: setframerate raises wave.Error for a rate <= 0 *)
SetParams ==
    /\ pc = "setparams"
    /\ IF args.sample_rate_hz <= 0
       THEN /\ wav' = [wav EXCEPT !.nchannels = nchannels,
                                  !.sampwidth = sampwidth]
            /\ Raise("wave.Error", "finally")
       ELSE /\ wav' = [wav EXCEPT !.nchannels = nchannels,
                                  !.sampwidth = sampwidth,
                                  !.framerate = args.sample_rate_hz]
            /\ Goto("input")
            /\ NoRaise
    /\ UNCHANGED <<argv, listed, auth, service, sound_stream, out_f,
                   responses, resp, first, prompts, lines, requests, reqlog, taken,
                   content, printed>>

(* variant: the output file is opened again for every line *)
Input_reopen ==
    /\ pc = "input"
    /\ prompts' = prompts + 1
    /\ \/ /\ lines < MaxReq
          /\ lines' = lines + 1
          /\ printed' = 0
          /\ wav' = IF out_f = "wave"
                    THEN [WaveOpen EXCEPT !.nchannels = nchannels,
                                          !.sampwidth = sampwidth,
                                          !.framerate = args.sample_rate_hz]
                    ELSE wav
          /\ Goto("synth")
          /\ NoRaise
       \/ /\ Raise("EOFError", "finally")
          /\ UNCHANGED <<lines, printed, wav>>
    /\ UNCHANGED <<argv, listed, auth, service, sound_stream, out_f,
                   responses, resp, first, requests, reqlog, taken, content>>

(* lines 60-64: a line is read, or input() raises EOFError *)
Input ==
    /\ pc = "input"
    /\ prompts' = prompts + 1
    /\ \/ /\ lines < MaxReq
          /\ lines' = lines + 1
          /\ printed' = 0
          /\ Goto("synth")
          /\ NoRaise
       \/ /\ Raise("EOFError", "finally")
          /\ UNCHANGED <<lines, printed>>
    /\ UNCHANGED <<argv, listed, auth, service, sound_stream, out_f, wav,
                   responses, resp, first, requests, reqlog, taken, content>>

(* lines 65-69: the streaming request; the response is a lazy sequence *)
SynthesizeOnline ==
    /\ pc = "synth"
    /\ args.stream
    /\ requests' = requests + 1
    /\ reqlog' = Append(reqlog, Request("synthesize_online"))
    /\ \E r \in StreamResponses :
          /\ responses' = r
          /\ content' = Append(content, Flatten(r))
    /\ first' = TRUE
    /\ Goto("next")
    /\ UNCHANGED <<argv, exc, cause, listed, auth, service, sound_stream, out_f, wav,
                   resp, prompts, lines, taken, printed>>

(* variant: the loop over the responses stops after the first chunk *)
NextResponse_break ==
    /\ pc = "next"
    /\ IF responses # <<>> /\ first
       THEN /\ resp' = Head(responses)
            /\ responses' = Tail(responses)
            /\ taken' = Append(taken, Head(responses))
            /\ printed' = printed + 1
            /\ first' = FALSE
            /\ Goto("sound_stream")
       ELSE /\ Goto("input")
            /\ UNCHANGED <<resp, responses, taken, printed, first>>
    /\ UNCHANGED <<argv, exc, cause, listed, auth, service, sound_stream,
                   out_f, wav, prompts, lines, requests, reqlog, content>>

(* lines 70-74: the next chunk arrives, or the sequence ends *)
NextResponse ==
    /\ pc = "next"
    /\ IF responses # <<>>
       THEN /\ resp' = Head(responses)
            /\ responses' = Tail(responses)
            /\ taken' = Append(taken, Head(responses))
            /\ printed' = IF first THEN printed + 1 ELSE printed
            /\ first' = FALSE
            /\ Goto("sound_stream")
       ELSE /\ Goto("input")
            /\ UNCHANGED <<resp, responses, taken, printed, first>>
    /\ UNCHANGED <<argv, exc, cause, listed, auth, service, sound_stream, out_f, wav,
                   prompts, lines, requests, reqlog, content>>

(* lines 78-81: the batch request returns the whole audio *)
Synthesize ==
    /\ pc = "synth"
    /\ ~args.stream
    /\ requests' = requests + 1
    /\ reqlog' = Append(reqlog, Request("synthesize"))
    /\ \E a \in Audio :
          /\ resp' = a
          /\ taken' = Append(taken, a)
          /\ content' = Append(content, a)
    /\ printed' = printed + 1
    /\ Goto("sound_stream")
    /\ UNCHANGED <<argv, exc, cause, listed, auth, service, sound_stream, out_f, wav,
                   responses, first, prompts, lines>>

(* variant: a failed request is sent again *)
SynthesisFails_retry ==
    /\ pc \in {"synth", "next"}
    /\ requests' = IF pc = "synth" THEN requests + 1 ELSE requests
    /\ reqlog' = IF pc = "synth" THEN Append(reqlog, Request(Operation))
                              ELSE reqlog
    /\ Goto("synth")
    /\ UNCHANGED <<argv, exc, cause, listed, auth, service, sound_stream,
                   out_f, wav, responses, resp, first, prompts, lines, taken,
                   content, printed>>

(* variant: a failed request is dropped and the loop goes on *)
SynthesisFails_continue ==
    /\ pc \in {"synth", "next"}
    /\ requests' = IF pc = "synth" THEN requests + 1 ELSE requests
    /\ reqlog' = IF pc = "synth" THEN Append(reqlog, Request(Operation))
                              ELSE reqlog
    /\ Goto("input")
    /\ UNCHANGED <<argv, exc, cause, listed, auth, service, sound_stream,
                   out_f, wav, responses, resp, first, prompts, lines, taken,
                   content, printed>>

(* lines 66, 70, 79: the service fails, at the call or while streaming *)
SynthesisFails ==
    /\ pc \in {"synth", "next"}
    /\ requests' = IF pc = "synth" THEN requests + 1 ELSE requests
    /\ reqlog' = IF pc = "synth" THEN Append(reqlog, Request(Operation))
                              ELSE reqlog
    /\ Raise("SynthesisError", "finally")
    /\ UNCHANGED <<argv, listed, auth, service, sound_stream, out_f, wav,
                   responses, resp, first, prompts, lines, taken, content,
                   printed>>

AfterWrite == IF args.stream THEN "next" ELSE "input"

(* variant: the audio is written to the file before it is played *)
SoundStream_filefirst ==
    /\ pc = "sound_stream"
    /\ wav' = IF out_f = "wave" THEN WriteFramesRaw(wav, resp) ELSE wav
    /\ \/ /\ sound_stream' = SoundCallBackCall(sound_stream, resp)
          /\ Goto(AfterWrite)
          /\ NoRaise
       \/ /\ Raise("DeviceWriteError", "finally")
          /\ sound_stream' = sound_stream
    /\ UNCHANGED <<argv, listed, auth, service, out_f,
                   responses, resp, first, prompts, lines, requests, reqlog,
                   taken, content, printed>>

(* variant: the audio is passed to the device twice *)
SoundStream_twice ==
    /\ pc = "sound_stream"
    /\ \/ /\ sound_stream' =
               SoundCallBackCall(SoundCallBackCall(sound_stream, resp), resp)
          /\ Goto(IF out_f # "None" THEN "writeframes" ELSE AfterWrite)
          /\ NoRaise
       \/ /\ Raise("DeviceWriteError", "finally")
          /\ sound_stream' = sound_stream
    /\ UNCHANGED <<argv, listed, auth, service, out_f, wav,
                   responses, resp, first, prompts, lines, requests, reqlog, taken,
                   content, printed>>

(* lines 75-76, 82-83: the audio is passed to the device, or the write raises *)
SoundStream ==
    /\ pc = "sound_stream"
    /\ \/ /\ sound_stream' = SoundCallBackCall(sound_stream, resp)
          /\ Goto(IF out_f # "None" THEN "writeframes" ELSE AfterWrite)
          /\ NoRaise
       \/ /\ Raise("DeviceWriteError", "finally")
          /\ sound_stream' = sound_stream
    /\ UNCHANGED <<argv, listed, auth, service, out_f, wav,
                   responses, resp, first, prompts, lines, requests, reqlog, taken,
                   content, printed>>

(* variant: only the first audio of the session is written to the file *)
WriteFrames_firstonly ==
    /\ pc = "writeframes"
    /\ \/ /\ wav' = IF wav.calls = <<>> THEN WriteFramesRaw(wav, resp) ELSE wav
          /\ Goto(AfterWrite)
          /\ NoRaise
       \/ /\ Raise("FileWriteError", "finally")
          /\ wav' = wav
    /\ UNCHANGED <<argv, listed, auth, service, sound_stream, out_f,
                   responses, resp, first, prompts, lines, requests, reqlog, taken,
                   content, printed>>

(* lines 77, 84: the audio is appended to the file, or the write raises *)
WriteFrames ==
    /\ pc = "writeframes"
    /\ \/ /\ wav' = WriteFramesRaw(wav, resp)
          /\ Goto(AfterWrite)
          /\ NoRaise
       \/ /\ Raise("FileWriteError", "finally")
          /\ wav' = wav
    /\ UNCHANGED <<argv, listed, auth, service, sound_stream, out_f,
                   responses, resp, first, prompts, lines, requests, reqlog, taken,
                   content, printed>>

TryBody == {"try", "setparams", "input", "synth", "next", "sound_stream",
            "writeframes"}

(* lines 52-84: KeyboardInterrupt inside the try body *)
Interrupt ==
    /\ pc \in TryBody
    /\ Raise("KeyboardInterrupt", "finally")
    /\ UNCHANGED <<argv, listed, auth, service, sound_stream, out_f, wav,
                   responses, resp, first, prompts, lines, requests, reqlog, taken,
                   content, printed>>

(* variant: the finally clause does not close the file *)
Finally_noclose ==
    /\ pc = "finally"
    /\ exc' = IF out_f = "unbound" THEN "UnboundLocalError" ELSE exc
    /\ Goto("with_exit")
    /\ UNCHANGED <<argv, cause, listed, auth, service, sound_stream, out_f,
                   wav, responses, resp, first, prompts, lines, requests, reqlog,
                   taken, content, printed>>

(* lines 85-87: out_f is unbound when wave.open raised; close() raises *)
(* wave.Error when the parameters were never all set                   *)
Finally ==
    /\ pc = "finally"
    /\ CASE out_f = "unbound" ->
              /\ exc' = "UnboundLocalError"
              /\ wav' = wav
         [] out_f = "None" ->
              /\ exc' = exc
              /\ wav' = wav
         [] out_f = "wave" ->
              /\ wav' = WaveClose(wav)
              /\ exc' = IF ParamsSet(wav) THEN exc ELSE "wave.Error"
    /\ Goto("with_exit")
    /\ UNCHANGED <<argv, cause, listed, auth, service, sound_stream, out_f,
                   responses, resp, first, prompts, lines, requests, reqlog, taken,
                   content, printed>>

(* lines 49-51: leaving the with statement releases the device *)
WithExit ==
    /\ pc = "with_exit"
    /\ sound_stream' = SoundCallBackExit(sound_stream)
    /\ Goto("exited")
    /\ UNCHANGED <<argv, exc, cause, listed, auth, service, out_f, wav,
                   responses, resp, first, prompts, lines, requests, reqlog, taken,
                   content, printed>>

Next ==
    \/ ParseArgs
    \/ ListDevices
    \/ Auth
    \/ Service
    \/ OpenDevice
    \/ OpenWave
    \/ SetParams
    \/ Input
    \/ SynthesizeOnline
    \/ NextResponse
    \/ Synthesize
    \/ SynthesisFails
    \/ SoundStream
    \/ WriteFrames
    \/ Interrupt
    \/ Finally
    \/ WithExit

Spec == Init /\ [][Next]_vars

(* The run goes on until main returns or raises *)
FairSpec == Spec /\ WF_vars(Next)

----------------------------------------------------------------------------
TypeOK ==
    /\ argv \in Argv
    /\ exc \in {"none", "InvalidArgument", "DeviceUnavailable",
                "FileWriteError", "wave.Error", "EOFError", "SynthesisError",
                "DeviceWriteError", "KeyboardInterrupt", "UnboundLocalError"}
    /\ out_f \in {"unbound", "None", "wave"}
    /\ sound_stream.state \in {"none", "open", "closed"}
    /\ wav.file \in {"none", "open", "closed"}
    /\ lines \in 0..MaxReq
    /\ prompts \in 0..(MaxReq + 1)

----------------------------------------------------------------------------
Stopped == Phase(pc) = "Stopped"

ValidHeader(rate, n) ==
    [present |-> TRUE, nchannels |-> 1, sampwidth |-> 2, framerate |-> rate,
     datalength |-> n]

(* C1: with an output file, whenever every audio buffer received so far    *)
(* has gone through both writes (no write failed, no interruption), the    *)
(* bytes in the file are the concatenation, in order, of the chunks passed *)
(* to the device over the whole session.                                   *)
C1_FileMirrorsDevice ==
    (/\ out_f = "wave"
     /\ pc \notin {"sound_stream", "writeframes"}
     /\ cause \notin {"FileWriteError", "KeyboardInterrupt"})
    => /\ wav.data = Flatten(sound_stream.calls)
       /\ wav.calls = sound_stream.calls

C1_Witness ==
    /\ out_f = "wave"
    /\ pc = "input"
    /\ requests = 2
    /\ Len(sound_stream.calls) >= 3
    /\ wav.data = <<0, 1, 0, 0>>

(* C2: when the run has ended and the output file was opened, the file was *)
(* closed exactly once and its header has 1 channel, 2-byte samples, the   *)
(* configured rate and a data length equal to the bytes written.           *)
C2_HeaderFinalized ==
    (pc = "exited" /\ wav.file # "none")
    => /\ wav.file = "closed"
       /\ wav.closes = 1
       /\ wav.header = ValidHeader(args.sample_rate_hz, Len(wav.data))

(* C3: a run that met end of input ends with the file finalized and with   *)
(* no error raised out of main.                                            *)
C3_EndOfInputIsClean ==
    (pc = "exited" /\ cause = "EOFError")
    => /\ exc = "none"
       /\ wav.file # "open"

(* C4: with a sample rate that is not a positive integer the run fails     *)
(* with InvalidArgument and never creates the connection, the service, the *)
(* device or the output file.                                              *)
InvalidRate ==
    \/ ~IsInt(argv.sample_rate_hz)
    \/ ParseInt(argv.sample_rate_hz) <= 0

C4_InvalidRateAcquiresNothing ==
    InvalidRate
    => /\ ~auth
       /\ ~service
       /\ sound_stream.state = "none"
       /\ wav.file = "none"
       /\ pc = "exited" => exc = "InvalidArgument"

(* C5: with --list-devices the run creates no connection and no service,   *)
(* opens neither the device nor the file, issues no prompt, and ends       *)
(* having listed the devices.                                              *)
C5_ListDevicesOnly ==
    argv.list_devices
    => /\ ~auth
       /\ ~service
       /\ sound_stream.state = "none"
       /\ wav.file = "none"
       /\ prompts = 0
       /\ requests = 0
       /\ (pc = "exited" /\ exc = "none") => listed

C5_Witness ==
    /\ argv.list_devices
    /\ argv.output
    /\ argv.stream
    /\ pc = "exited"
    /\ listed

(* C6: at every prompt and after end of input, the bytes passed to the     *)
(* device, the bytes in the file and the finalized header depend only on   *)
(* the audio content of the requests, not on the mode or on how the        *)
(* content was split into chunks.                                          *)
C6_ModeIndependent ==
    (pc = "input" \/ cause = "EOFError")
    => /\ Flatten(sound_stream.calls) = Flatten(content)
       /\ out_f = "wave" => wav.data = Flatten(content)
       /\ wav.file = "closed" =>
              wav.header = ValidHeader(args.sample_rate_hz,
                                       Len(Flatten(content)))

C6_Witness ==
    /\ argv.stream
    /\ pc = "exited"
    /\ cause = "EOFError"
    /\ wav.file = "closed"
    /\ content = <<<<0, 1, 0>>, <<1, 0>>>>
    /\ Len(sound_stream.calls) = 3

(* C7: a failure is never recovered from, and a run that has ended holds   *)
(* neither the device nor the file.                                        *)
C7_NoLeak ==
    /\ cause # "none" => Stopped
    /\ pc = "exited" => (sound_stream.state # "open" /\ wav.file # "open")

C7_Witness ==
    /\ pc = "exited"
    /\ cause = "FileWriteError"
    /\ sound_stream.state = "closed"
    /\ wav.file = "closed"
    /\ wav.data # <<>>

(* C8: when the output file cannot be created, the error raised out of     *)
(* main is that failure and no prompt was issued.                          *)
C8_FileCreationFailureSurfaces ==
    (pc = "exited" /\ cause = "FileWriteError" /\ wav.file = "none")
    => /\ exc = "FileWriteError"
       /\ prompts = 0

(* C9: every audio buffer received is passed to the device exactly once,   *)
(* and to the file exactly once, in arrival order and before the next one  *)
(* is taken; in batch mode each request makes exactly one device call,     *)
(* with the whole buffer of the request.                                   *)
C9_OneWritePerChunk ==
    /\ pc = "sound_stream" =>
           /\ taken = Append(sound_stream.calls, resp)
           /\ out_f = "wave" => taken = Append(wav.calls, resp)
    /\ pc = "writeframes" =>
           /\ taken = sound_stream.calls
           /\ taken = Append(wav.calls, resp)
    /\ pc \in {"input", "synth", "next"} =>
           /\ taken = sound_stream.calls
           /\ out_f = "wave" => taken = wav.calls
    /\ (~argv.stream /\ pc = "input") =>
           /\ Len(sound_stream.calls) = requests
           /\ sound_stream.calls = content

C9_Witness ==
    /\ argv.stream
    /\ out_f = "wave"
    /\ pc = "next"
    /\ responses = <<>>
    /\ sound_stream.calls = <<<<1, 0>>, <<0>>>>

(* C10: the loop controller only moves AwaitingInput -> Synthesizing ->    *)
(* Playing -> AwaitingInput or to Stopped, and once Stopped nothing is     *)
(* prompted, requested or written any more.                                *)
LoopMoves ==
    {<<"Starting", "Starting">>, <<"Starting", "AwaitingInput">>,
     <<"AwaitingInput", "Synthesizing">>, <<"Synthesizing", "Playing">>,
     <<"Playing", "Playing">>, <<"Playing", "AwaitingInput">>,
     <<"Starting", "Stopped">>, <<"AwaitingInput", "Stopped">>,
     <<"Synthesizing", "Stopped">>, <<"Playing", "Stopped">>,
     <<"Stopped", "Stopped">>}

C10_LoopController ==
    [][/\ <<Phase(pc), Phase(pc')>> \in LoopMoves
       /\ Stopped => /\ prompts' = prompts
                     /\ lines' = lines
                     /\ requests' = requests
                     /\ sound_stream.calls' = sound_stream.calls
                     /\ wav.calls' = wav.calls]_vars

C10_Witness ==
    /\ pc = "exited"
    /\ cause = "EOFError"
    /\ lines = 2
    /\ Len(sound_stream.calls) = 2

InLoop == Phase(pc) \in {"AwaitingInput", "Synthesizing", "Playing"}

IsPrefix(a, b) == Len(a) <= Len(b) /\ SubSeq(b, 1, Len(a)) = a

(* C11: every line read causes exactly one synthesis request, of the      *)
(* operation the streaming flag selects; after a synthesis failure the     *)
(* session is stopped and no further request is sent or line read.         *)
C11_Requests ==
    /\ requests = Len(reqlog)
    /\ \A i \in 1..Len(reqlog) : reqlog[i].operation = Operation
    /\ requests <= lines
    /\ lines <= requests + 1
    /\ pc = "synth" => requests = lines - 1
    /\ pc \in {"input", "next", "sound_stream", "writeframes"} =>
           requests = lines
    /\ cause = "SynthesisError" => Stopped

C11_AfterFailure ==
    cause = "SynthesisError"
    => /\ requests' = requests
       /\ reqlog' = reqlog
       /\ lines' = lines
       /\ prompts' = prompts

C11_NoRetry == []C11_Requests /\ [][C11_AfterFailure]_vars

C11_Witness ==
    /\ argv.stream
    /\ pc = "exited"
    /\ cause = "SynthesisError"
    /\ lines = 2
    /\ requests = 2
    /\ Len(taken) = 3

(* C12: at most one metric line is printed per request, and when the next  *)
(* prompt is reached after a request exactly one has been printed.         *)
C12_MetricPerRequest ==
    /\ printed <= 1
    /\ (pc = "input" /\ lines > 0) => printed = 1

(* C13: the device, the WAV file and its header, and every synthesis       *)
(* request have 1 channel, 2-byte samples and the configured sample rate,  *)
(* in every state of the session.                                          *)
C13_FixedFormat ==
    IsInt(argv.sample_rate_hz)
    => /\ sound_stream.state # "none" =>
              /\ sound_stream.nchannels = 1
              /\ sound_stream.sampwidth = 2
              /\ sound_stream.framerate = args.sample_rate_hz
       /\ wav.nchannels \in {0, 1}
       /\ wav.sampwidth \in {0, 2}
       /\ wav.framerate \in {0, args.sample_rate_hz}
       /\ (InLoop /\ out_f = "wave") =>
              /\ wav.nchannels = 1
              /\ wav.sampwidth = 2
              /\ wav.framerate = args.sample_rate_hz
       /\ wav.header.present =>
              /\ wav.header.nchannels = 1
              /\ wav.header.sampwidth = 2
              /\ wav.header.framerate = args.sample_rate_hz
       /\ \A i \in 1..Len(reqlog) :
              reqlog[i].sample_rate_hz = args.sample_rate_hz

C13_Witness ==
    /\ argv.sample_rate_hz = "16000"
    /\ pc = "exited"
    /\ wav.header.present
    /\ wav.header.framerate = 16000
    /\ sound_stream.framerate = 16000
    /\ Len(reqlog) = 2
    /\ reqlog[2].sample_rate_hz = 16000

(* C14: the device is only opened once the connection and the service      *)
(* exist, the file is only created once the device is open, the device is  *)
(* only released once the file is no longer open, and after a failure to   *)
(* open the device there is no file.                                       *)
C14_Nested ==
    /\ service => auth
    /\ sound_stream.state # "none" => (auth /\ service)
    /\ wav.file # "none" => sound_stream.state # "none"
    /\ sound_stream.state = "closed" => wav.file # "open"
    /\ cause = "DeviceUnavailable" =>
           (wav.file = "none" /\ sound_stream.state = "none")

C14_Witness ==
    /\ pc = "with_exit"
    /\ sound_stream.state = "open"
    /\ wav.file = "closed"
    /\ wav.data # <<>>
    /\ auth
    /\ service

(* C15: the file is opened only from the never-opened state and before any *)
(* prompt, stops being open only on the way out, never loses bytes, and    *)
(* the device and the file are written only while open.                    *)
C15_Step ==
    /\ (wav.file # "open" /\ wav'.file = "open") =>
           (wav.file = "none" /\ prompts = 0)
    /\ (wav.file = "open" /\ wav'.file # "open") =>
           (Stopped /\ wav'.file = "closed")
    /\ IsPrefix(wav.data, wav'.data)
    /\ IsPrefix(wav.calls, wav'.calls)
    /\ wav'.calls # wav.calls => (wav.file = "open" /\ wav'.file = "open")
    /\ sound_stream'.calls # sound_stream.calls =>
           (sound_stream.state = "open" /\ sound_stream'.state = "open")

C15_OneFile == [][C15_Step]_vars

C15_Witness ==
    /\ pc = "input"
    /\ wav.file = "open"
    /\ requests = 2
    /\ wav.calls = <<<<1, 0>>, <<0>>>>
    /\ wav.data = <<1, 0, 0>>

(* C16: the file's writes are a prefix of the device's and lag by at most  *)
(* one chunk; after a failed device write the file has exactly the chunks  *)
(* played, and not the chunk that failed.                                  *)
C16_FileLagsDevice ==
    out_f = "wave"
    => /\ IsPrefix(wav.calls, sound_stream.calls)
       /\ IsPrefix(wav.data, Flatten(sound_stream.calls))
       /\ Len(sound_stream.calls) <= Len(wav.calls) + 1
       /\ cause = "DeviceWriteError" =>
              /\ wav.calls = sound_stream.calls
              /\ taken = Append(wav.calls, resp)

C16_Witness ==
    /\ out_f = "wave"
    /\ pc = "exited"
    /\ cause = "DeviceWriteError"
    /\ wav.calls = <<<<1, 0>>>>
    /\ resp = <<0>>
    /\ Len(taken) = 2

====
